---- MODULE Spec2Model ----
(***************************************************************************)
(* Turtle Trading indicator engine: batch enrichment (calculator.py,       *)
(* _add_all_indicators), the incremental updater                           *)
(* (enrich_with_indicators_for_ticker, _append_new_rows) and the breakout  *)
(* scans (breakout_checker.py).                                            *)
(*                                                                         *)
(* Numbers.  Every price the program stores is rounded to ROUND_DP = 4     *)
(* decimal places (constants.py:7).  A price is modelled as the integer    *)
(* count of 1e-4 units, so round(x, ROUND_DP) of a quotient p/q of such    *)
(* integers is Round(p, q): the nearest integer, ties to even (Python's    *)
(* round).                                                                 *)
(*                                                                         *)
(* Day counts.  The program's day counts 5, 10, 20, 30, 50, 55, 100, 200   *)
(* (the windows in the column names, SKIP_RECENT_ROWS, the n_days of the   *)
(* scans) are scaled to D5 < D10 < D20 < D30 < D50 < D55 < D100 < D200 so  *)
(* that a series can be longer than every window.  Columns keep the names  *)
(* of the source ("MA-5", "20-Days High", ...); Days(column) is the        *)
(* scaled count that int(column.split('-')[k]) yields.                     *)
(*                                                                         *)
(* Frames.  A pandas DataFrame is [columns |-> sequence of column names,   *)
(* rows |-> sequence of rows], a row being a function from the column      *)
(* names to values.  Operators take the 0-based positions of the source:   *)
(* Iloc(df, i) is df.iloc[i], Slice(df, a, b) is df.iloc[a:b].             *)
(***************************************************************************)
EXTENDS Integers, Sequences, FiniteSets, TLC

VARIABLES
    provider,   \* the bars the data provider holds for the ticker, oldest first
    today,      \* date.today()
    csv,        \* the ticker's file in the market-data folder
    folder,     \* the market-data folder the scans read: ticker -> file
    call,       \* the call in progress or just made, with its result
    printed,    \* what the call printed
    seen,       \* what a concurrent reader of the ticker's file has read
    logs        \* the log files of the scheduled scripts: name -> lines

vars == <<provider, today, csv, folder, call, printed, seen, logs>>

(***************************************************************************)
(* Bounds of the model and the scale of the day counts.                    *)
(***************************************************************************)
D5 == 1
D10 == 2
D20 == 3
D30 == 4
D50 == 5
D55 == 6
D100 == 7
D200 == 8

\* Longest bar series the calculator specification enumerates.
MaxLen == 9

\* Last calendar day of the updater specification.
MaxDay == 7

(***************************************************************************)
(* Column names (constants.py) and column groups (data_retriever.py).      *)
(***************************************************************************)
DATE == "Date"
OPEN == "Open"
HIGH == "High"
LOW == "Low"
CLOSE == "Close"
VOLUME == "Volume"
TRUE_RANGE == "True Range"
ATR_20 == "ATR-20"
ATR_55 == "ATR-55"
BULLISH_ARRANGEMENT == "Bullish"

BASIC_COLUMNS == <<DATE, OPEN, HIGH, LOW, CLOSE, VOLUME>>
N_DAYS_HIGH_COLUMNS ==
    <<"10-Days High", "20-Days High", "30-Days High", "55-Days High",
      "100-Days High", "200-Days High">>
N_DAYS_LOW_COLUMNS == <<"10-Days Low", "20-Days Low">>
MOVING_AVERAGE_COLUMNS ==
    <<"MA-5", "MA-10", "MA-20", "MA-30", "MA-50", "MA-100", "MA-200">>
TRUE_RANGE_COLUMNS == <<TRUE_RANGE, ATR_20, ATR_55>>
BULLISH_COLUMNS == <<BULLISH_ARRANGEMENT>>

\* int(column.split('-')[0]) or int(column.split('-')[1]), in scaled days.
Days(column) ==
    CASE column \in {"MA-5"} -> D5
      [] column \in {"MA-10", "10-Days High", "10-Days Low"} -> D10
      [] column \in {"MA-20", "20-Days High", "20-Days Low", ATR_20} -> D20
      [] column \in {"MA-30", "30-Days High"} -> D30
      [] column \in {"MA-50"} -> D50
      [] column \in {"55-Days High", ATR_55} -> D55
      [] column \in {"MA-100", "100-Days High"} -> D100
      [] column \in {"MA-200", "200-Days High"} -> D200

SKIP_RECENT_ROWS == D10

\* The log files of the scheduled scripts, all empty.
BREAKOUT_LOG_MARKET_CLOSE == "breakout_check_market_close_full_breakout_list.log"
BREAKOUT_LOG_MARKET_OPEN == "breakout_check_market_open_full_breakout_list.log"
MAIN_LOG_BREAKOUT_MARKET_CLOSE == "breakout_check_market_close.log"
MAIN_LOG_BREAKOUT_MARKET_OPEN == "breakout_check_market_open.log"

NoLogs ==
    [name \in {BREAKOUT_LOG_MARKET_CLOSE, BREAKOUT_LOG_MARKET_OPEN,
               MAIN_LOG_BREAKOUT_MARKET_CLOSE, MAIN_LOG_BREAKOUT_MARKET_OPEN} |-> <<>>]
N_DAYS_HIGH_LIST == <<D20, D55>>

(***************************************************************************)
(* Arithmetic and frame helpers.                                           *)
(***************************************************************************)
Range(s) == {s[i] : i \in 1..Len(s)}

Min2(a, b) == IF a <= b THEN a ELSE b
Max2(a, b) == IF a >= b THEN a ELSE b
Abs(x) == IF x < 0 THEN -x ELSE x

\* round(p / q, ROUND_DP) in 1e-4 units, p >= 0, q > 0: nearest, ties to even.
Round(p, q) ==
    LET f == p \div q
        r == p % q
    IN  IF 2 * r < q THEN f
        ELSE IF 2 * r > q THEN f + 1
        ELSE IF f % 2 = 0 THEN f ELSE f + 1

RECURSIVE SumSeq(_)
SumSeq(s) == IF s = <<>> THEN 0 ELSE s[1] + SumSeq(Tail(s))

MaxOf(S) == CHOOSE x \in S : \A y \in S : y <= x
MinOf(S) == CHOOSE x \in S : \A y \in S : x <= y

len(df) == Len(df.rows)
Iloc(df, index) == df.rows[index + 1]

\* df.iloc[a:b] for 0 <= a: rows a .. b-1, b clamped to len(df).
Slice(df, a, b) ==
    [columns |-> df.columns, rows |-> SubSeq(df.rows, a + 1, Min2(b, len(df)))]

\* df.iloc[:-n] for n > 0.
DropLast(df, n) == Slice(df, 0, Max2(0, len(df) - n))

\* df[column] as a sequence of values.
Col(df, column) == [i \in 1..len(df) |-> df.rows[i][column]]

\* round(series.mean(), ROUND_DP) of a non-empty column.
RoundMean(s) == Round(SumSeq(s), Len(s))

\* df[column] = values (a new column, or an existing one overwritten).
SetColumn(df, column, values) ==
    [columns |-> IF column \in Range(df.columns) THEN df.columns
                 ELSE Append(df.columns, column),
     rows |-> [i \in 1..len(df) |->
                [c \in DOMAIN df.rows[i] \cup {column} |->
                    IF c = column THEN values[i] ELSE df.rows[i][c]]]]

\* The list [f(0), ..., f(n-1)] a loop over range(n) builds.
ListOf(n, f(_)) == [i \in 1..n |-> f(i - 1)]

(***************************************************************************)
(* calculator.py                                                           *)
(***************************************************************************)
\* Mutant: the distances to yesterday's close taken without abs().
true_range_without_abs(df, index) ==
    LET row == Iloc(df, index)
    IN  IF index = 0 THEN Round(row[HIGH] - row[LOW], 1)
        ELSE LET yesterday_close == Iloc(df, index - 1)[CLOSE]
             IN  Round(Max2(row[HIGH] - row[LOW],
                            Max2(row[HIGH] - yesterday_close,
                                 row[LOW] - yesterday_close)), 1)

calculate_true_range_at_index(df, index) ==
    LET row == Iloc(df, index)
    IN  IF index = 0 THEN Round(row[HIGH] - row[LOW], 1)
        ELSE LET previous_row == Iloc(df, index - 1)
                 today_high == row[HIGH]
                 today_low == row[LOW]
                 yesterday_close == previous_row[CLOSE]
                 today_range == today_high - today_low
                 high_close_diff == Abs(today_high - yesterday_close)
                 low_close_diff == Abs(today_low - yesterday_close)
             IN  Round(Max2(today_range, Max2(high_close_diff, low_close_diff)), 1)

calculate_true_range_column(df) ==
    SetColumn(df, TRUE_RANGE,
              ListOf(len(df), LAMBDA index : calculate_true_range_at_index(df, index)))

\* Mutant: the weighted sum is divided by days - 1.
average_true_range_over_fewer_days(previous_atr, current_tr, days) ==
    Round(previous_atr * (days - 1) + current_tr, days - 1)

calculate_average_true_range(previous_atr, current_tr, days) ==
    Round(previous_atr * (days - 1) + current_tr, days)

\* Mutant: the recursion starts one row late (i > days for i >= days).
RECURSIVE average_true_ranges_late(_, _, _)
average_true_ranges_late(df, days, n) ==
    IF n = 0 THEN <<>>
    ELSE LET done == average_true_ranges_late(df, days, n - 1)
             i == n - 1
             atr == IF i > days
                    THEN calculate_average_true_range(
                             done[Len(done)], Iloc(df, i)[TRUE_RANGE], days)
                    ELSE RoundMean(Col(Slice(df, 0, i + 1), TRUE_RANGE))
         IN  Append(done, atr)

\* The list average_true_ranges after the loop has run for i = 0 .. n-1.
RECURSIVE average_true_ranges(_, _, _)
average_true_ranges(df, days, n) ==
    IF n = 0 THEN <<>>
    ELSE LET done == average_true_ranges(df, days, n - 1)
             i == n - 1
             atr == IF i >= days
                    THEN calculate_average_true_range(
                             done[Len(done)], Iloc(df, i)[TRUE_RANGE], days)
                    ELSE RoundMean(Col(Slice(df, 0, i + 1), TRUE_RANGE))
         IN  Append(done, atr)

calculate_average_true_range_column(df, column, days) ==
    SetColumn(df, column, average_true_ranges(df, days, len(df)))

calculate_moving_average_at_index(df, index, days) ==
    LET actual_days == Min2(days, Min2(len(df), index + 1))
    IN  RoundMean(Col(Slice(df, index - actual_days + 1, index + 1), CLOSE))

\* Mutant: the first rows divide the sum of their closes by the whole window.
moving_average_column_over_days(df, column, days) ==
    LET actual_days == IF len(df) > 1 THEN Min2(days, len(df) - 1) ELSE 1
        ma(index) == IF index < actual_days
                     THEN Round(SumSeq(Col(Slice(df, 0, index + 1), CLOSE)), actual_days)
                     ELSE calculate_moving_average_at_index(df, index, actual_days)
    IN  SetColumn(df, column, ListOf(len(df), ma))

calculate_moving_average_column(df, column, days) ==
    LET actual_days == IF len(df) > 1 THEN Min2(days, len(df) - 1) ELSE 1
        ma(index) == IF index < actual_days
                     THEN RoundMean(Col(Slice(df, 0, index + 1), CLOSE))
                     ELSE calculate_moving_average_at_index(df, index, actual_days)
    IN  SetColumn(df, column, ListOf(len(df), ma))

\* Mutant: the window reaches one row further back.
n_days_high_one_row_more(df, index, n) ==
    LET actual_n == Min2(n + 1, Min2(len(df), index + 1))
        highs == Col(Slice(df, index - actual_n + 1, index + 1), HIGH)
    IN  Round(MaxOf(Range(highs)), 1)

calculate_n_days_high_at_index(df, index, n) ==
    LET actual_n == Min2(n, Min2(len(df), index + 1))
        highs == Col(Slice(df, index - actual_n + 1, index + 1), HIGH)
    IN  Round(MaxOf(Range(highs)), 1)

calculate_n_days_high_column(df, column, n) ==
    LET actual_n == Min2(n, len(df))
        high(index) == IF index < actual_n
                       THEN MaxOf(Range(Col(Slice(df, 0, index + 1), HIGH)))
                       ELSE calculate_n_days_high_at_index(df, index, actual_n)
    IN  SetColumn(df, column, ListOf(len(df), LAMBDA index : Round(high(index), 1)))

\* Mutant: the window ends at the row before index.
n_days_low_before_index(df, index, n) ==
    LET actual_n == Min2(n, Min2(len(df), index))
        lows == Col(Slice(df, index - actual_n, index), LOW)
    IN  Round(MinOf(Range(lows)), 1)

calculate_n_days_low_at_index(df, index, n) ==
    LET actual_n == Min2(n, Min2(len(df), index + 1))
        lows == Col(Slice(df, index - actual_n + 1, index + 1), LOW)
    IN  Round(MinOf(Range(lows)), 1)

calculate_n_days_low_column(df, column, n) ==
    LET actual_n == Min2(n, len(df))
        low(index) == IF index < actual_n
                      THEN MinOf(Range(Col(Slice(df, 0, index + 1), LOW)))
                      ELSE calculate_n_days_low_at_index(df, index, actual_n)
    IN  SetColumn(df, column, ListOf(len(df), LAMBDA index : Round(low(index), 1)))

\* Mutant: equal neighbours pass (< for <=).
RECURSIVE bullish_from_ties_pass(_, _)
bullish_from_ties_pass(row, i) ==
    IF i > Len(MOVING_AVERAGE_COLUMNS) - 1 THEN TRUE
    ELSE IF row[MOVING_AVERAGE_COLUMNS[i]] < row[MOVING_AVERAGE_COLUMNS[i + 1]]
         THEN FALSE
         ELSE bullish_from_ties_pass(row, i + 1)

\* The loop over range(len(ma_columns) - 1), from position i on.
RECURSIVE bullish_from(_, _)
bullish_from(row, i) ==
    IF i > Len(MOVING_AVERAGE_COLUMNS) - 1 THEN TRUE
    ELSE IF row[MOVING_AVERAGE_COLUMNS[i]] <= row[MOVING_AVERAGE_COLUMNS[i + 1]]
         THEN FALSE
         ELSE bullish_from(row, i + 1)

check_bullish_arrangement_at_index(df, index) == bullish_from(Iloc(df, index), 1)

calculate_bullish_arrangement_column(df) ==
    SetColumn(df, BULLISH_ARRANGEMENT,
              ListOf(len(df), LAMBDA index : check_bullish_arrangement_at_index(df, index)))

\* The comparison with >= in place of >.
price_reaches_n_days_high(df, days, price) ==
    IF len(df) = 0 THEN FALSE
    ELSE LET actual_days == Min2(days, len(df))
             last_index == len(df) - 1
             start_index == Max2(0, last_index - actual_days + 1)
             n_days_high == MaxOf(Range(Col(Slice(df, start_index, last_index + 1), HIGH)))
         IN  price >= n_days_high

\* The window with the last stored bar left out of it.
live_window_before_last(df, days) ==
    LET actual_days == Min2(days, len(df))
        last_index == len(df) - 1
        start_index == Max2(0, last_index - actual_days)
    IN  Slice(df, start_index, last_index)

\* df.iloc[start_index:last_index + 1] of check_price_break_n_days_high: the bars
\* the live price is compared with.
live_window(df, days) ==
    LET actual_days == Min2(days, len(df))
        last_index == len(df) - 1
        start_index == Max2(0, last_index - actual_days + 1)
    IN  Slice(df, start_index, last_index + 1)

check_price_break_n_days_high(df, days, price) ==
    IF len(df) = 0 THEN FALSE
    ELSE LET n_days_high == MaxOf(Range(Col(live_window(df, days), HIGH)))
         IN  price > n_days_high

(***************************************************************************)
(* data_retriever.py: batch enrichment.                                    *)
(***************************************************************************)
_add_column(df, column_name) ==
    IF column_name \in Range(df.columns) THEN df
    ELSE IF column_name = TRUE_RANGE THEN calculate_true_range_column(df)
    ELSE IF column_name \in {ATR_20, ATR_55}
         THEN calculate_average_true_range_column(df, column_name, Days(column_name))
    ELSE IF column_name \in Range(MOVING_AVERAGE_COLUMNS)
         THEN calculate_moving_average_column(df, column_name, Days(column_name))
    ELSE IF column_name \in Range(N_DAYS_HIGH_COLUMNS)
         THEN calculate_n_days_high_column(df, column_name, Days(column_name))
    ELSE IF column_name \in Range(N_DAYS_LOW_COLUMNS)
         THEN calculate_n_days_low_column(df, column_name, Days(column_name))
    ELSE IF column_name = BULLISH_ARRANGEMENT
         THEN calculate_bullish_arrangement_column(df)
    ELSE df

columns_to_add ==
    N_DAYS_HIGH_COLUMNS \o N_DAYS_LOW_COLUMNS \o MOVING_AVERAGE_COLUMNS
        \o TRUE_RANGE_COLUMNS \o BULLISH_COLUMNS

\* df after the first n columns of columns_to_add went through _add_column.
RECURSIVE add_columns(_, _)
add_columns(df, n) ==
    IF n = 0 THEN df ELSE _add_column(add_columns(df, n - 1), columns_to_add[n])

_add_all_indicators(df) == add_columns(df, Len(columns_to_add))

(***************************************************************************)
(* data_retriever.py: the incremental updater.                             *)
(***************************************************************************)
_calculate_row_values(df, latest_df, index, columns) ==
    [column \in Range(columns) |->
        IF column \in Range(BASIC_COLUMNS) THEN Iloc(latest_df, index)[column]
        ELSE IF column \in Range(N_DAYS_HIGH_COLUMNS)
             THEN calculate_n_days_high_at_index(latest_df, index, Days(column))
        ELSE IF column \in Range(N_DAYS_LOW_COLUMNS)
             THEN calculate_n_days_low_at_index(latest_df, index, Days(column))
        ELSE IF column \in Range(MOVING_AVERAGE_COLUMNS)
             THEN calculate_moving_average_at_index(latest_df, index, Days(column))
        ELSE IF column = TRUE_RANGE
             THEN calculate_true_range_at_index(latest_df, index)
        ELSE IF column \in {ATR_20, ATR_55}
             THEN LET current_tr == calculate_true_range_at_index(latest_df, index)
                      previous_atr == Iloc(df, len(df) - 1)[column]
                  IN  calculate_average_true_range(previous_atr, current_tr, Days(column))
        ELSE IF column = BULLISH_ARRANGEMENT THEN FALSE
        ELSE 0]

\* df after the loop of _append_new_rows has run from index on.
RECURSIVE append_rows(_, _, _, _)
append_rows(df, latest_df, index, columns) ==
    IF index >= len(latest_df) THEN df
    ELSE LET new_row == _calculate_row_values(df, latest_df, index, columns)
         IN  append_rows([columns |-> df.columns, rows |-> Append(df.rows, new_row)],
                         latest_df, index + 1, columns)

\* Mutant: the loop starts at the anchor's row (range(start_index - 1, ...)).
append_rows_from_anchor(df, latest_df, start_index) ==
    append_rows(df, latest_df, Max2(0, start_index - 1), df.columns)

_append_new_rows(df, latest_df, start_index) ==
    append_rows(df, latest_df, start_index, df.columns)

\* latest_df[DATE].eq(last_date).idxmax() on a non-empty frame: the first
\* position holding last_date, and position 0 when no row holds it.
\* Mutant: the position before the first one holding last_date.
idxmax_eq_before(latest_df, last_date) ==
    LET hits == {i \in 0..(len(latest_df) - 1) : Iloc(latest_df, i)[DATE] = last_date}
    IN  IF hits = {} THEN 0 ELSE MinOf(hits) - 1

idxmax_eq(latest_df, last_date) ==
    LET hits == {i \in 0..(len(latest_df) - 1) : Iloc(latest_df, i)[DATE] = last_date}
    IN  IF hits = {} THEN 0 ELSE MinOf(hits)

(***************************************************************************)
(* The market-data provider (yfinance), as the program sees it.            *)
(***************************************************************************)
\* One day's quote: <<Open, High, Low, Close, Volume>>, Low <= Open, Close <= High.
Quotes == { <<99, 105, 98, 100, 7>>, <<201, 212, 199, 207, 9>> }

Bar(date, q) ==
    (DATE :> date) @@ (OPEN :> q[1]) @@ (HIGH :> q[2]) @@ (LOW :> q[3])
        @@ (CLOSE :> q[4]) @@ (VOLUME :> q[5])

\* A frame of raw bars, as data.history(...).reset_index()[BASIC_COLUMNS] is.
RawFrame(bars) == [columns |-> BASIC_COLUMNS, rows |-> bars]

NoFile == [columns |-> <<>>, rows |-> <<>>, exists |-> FALSE]
File(df) == [columns |-> df.columns, rows |-> df.rows, exists |-> TRUE]

(***************************************************************************)
(* Calculator specification: the enrichment functions applied to every     *)
(* bar series of up to MaxLen bars, in batch and split at every k.         *)
(***************************************************************************)
Histories(n) == {[i \in 1..n |-> Bar(i, qs[i])] : qs \in [1..n -> Quotes]}

CalcInit ==
    /\ provider \in UNION {Histories(n) : n \in 1..MaxLen}
    /\ today = 0
    /\ csv = NoFile
    /\ folder = <<>>
    /\ call = [op |-> "none"]
    /\ printed = <<>>
    /\ seen = <<>>
    /\ logs = NoLogs

\* enrich(bars[0..n))
CalcBatch ==
    /\ call.op = "none"
    /\ csv' = File(_add_all_indicators(RawFrame(provider)))
    /\ call' = [op |-> "batch"]
    /\ UNCHANGED <<provider, today, folder, printed, seen, logs>>

\* append(enrich(bars[0..k)), frame), the fetched frame being bars[s-1..n):
\* the whole history (s = 1) or the anchor bar k-1 and the bars after it
\* (s = k).  The anchor is at position k-s of the frame.
CalcAppend(k, s) ==
    /\ call.op = "none"
    /\ LET n == Len(provider)
           df == _add_all_indicators(RawFrame(SubSeq(provider, 1, k)))
           latest_df == RawFrame(SubSeq(provider, s, n))
           last_date == Iloc(df, len(df) - 1)[DATE]
           first_new_index == idxmax_eq(latest_df, last_date) + 1
       IN  csv' = File(_append_new_rows(df, latest_df, first_new_index))
    /\ call' = [op |-> "append", k |-> k, s |-> s]
    /\ UNCHANGED <<provider, today, folder, printed, seen, logs>>

CalcNext ==
    \/ CalcBatch
    \/ \E k \in 1..(Len(provider) - 1) : \E s \in {1, k} : CalcAppend(k, s)

SpecCalc == CalcInit /\ [][CalcNext]_vars

(***************************************************************************)
(* The updater specification (Spec): one ticker's provider history grows   *)
(* by one bar every trading day (Monday to Friday);                        *)
(* download_market_data_for_ticker and enrich_with_indicators_for_ticker   *)
(* run at any time, with any period.                                       *)
(*                                                                         *)
(* A date is the number of its day; date.strftime("%Y-%m-%d") is one-to-   *)
(* one, so the program's comparisons of date strings are comparisons of    *)
(* day numbers.  Day 0 is a Monday: weekday() of day d is d % 7, and 6 is  *)
(* Sunday.  to_csv / read_csv give back the frame that was saved (the      *)
(* numbers are written with repr, the booleans as True / False).           *)
(***************************************************************************)
\* The durations callers pass, in days: a period shorter than the history the
\* model reaches and one longer than it (PERIOD_5Y).
Periods == {3, 30}

\* What the provider does on a request.
Net == {"ok", "no_info", "error"}

weekday(d) == d % 7

\* data.history(period=duration): the bars of the last `duration` days.
History(duration) == SelectSeq(provider, LAMBDA b : b[DATE] > today - duration)

LastDate(df) == Iloc(df, len(df) - 1)[DATE]

\* What a call leaves behind: the ticker's file, the lines printed, whether an
\* exception left the function, whether the provider was asked for data.
Outcome(file, messages, raised, fetched) ==
    [csv |-> file, printed |-> messages, raised |-> raised, fetched |-> fetched]

download_market_data_for_ticker(file, duration, net) ==
    IF net = "error" THEN Outcome(file, <<>>, TRUE, TRUE)
    ELSE IF net = "no_info" THEN Outcome(file, <<"No data available">>, FALSE, TRUE)
    ELSE LET fetched == RawFrame(History(duration))
             df == IF len(fetched) > 0 /\ LastDate(fetched) = today
                   THEN DropLast(fetched, SKIP_RECENT_ROWS)
                   ELSE fetched
         IN  Outcome(File(_add_all_indicators(df)),
                     <<"Downloaded and processed data">>, FALSE, TRUE)

\* The freshness test without the Sunday rule.
is_from_today_or_yesterday(last_date, today_, yesterday) ==
    last_date \in {today_, yesterday}

_is_data_current(last_date, today_, yesterday) ==
    IF weekday(today_) = 6 /\ last_date = today_ - 2 THEN TRUE
    ELSE IF last_date \in {today_, yesterday} THEN TRUE
    ELSE FALSE

\* None is modelled as the frame with no columns and no rows, marked none.
_fetch_latest_data(duration, net) ==
    IF net = "error" THEN [none |-> TRUE, df |-> RawFrame(<<>>)]
    ELSE LET latest_df == RawFrame(History(duration))
         IN  [none |-> FALSE,
              df |-> IF len(latest_df) > 0 /\ LastDate(latest_df) = today
                     THEN DropLast(latest_df, 1)
                     ELSE latest_df]

enrich_with_indicators_for_ticker(file, duration, net) ==
    IF ~file.exists THEN download_market_data_for_ticker(file, duration, net)
    ELSE IF len(file) = 0 THEN Outcome(file, <<>>, TRUE, FALSE)
    ELSE LET df == [columns |-> file.columns, rows |-> file.rows]
             yesterday == today - 1
             last_date == LastDate(df)
         IN  IF _is_data_current(last_date, today, yesterday)
             THEN Outcome(file, <<>>, FALSE, FALSE)
             ELSE LET latest == _fetch_latest_data(duration, net)
                  IN  IF latest.none
                      THEN Outcome(file, <<"Error fetching latest data">>, FALSE, TRUE)
                      ELSE IF len(latest.df) = 0
                      THEN Outcome(file, <<"Could not find matching date">>, FALSE, TRUE)
                      ELSE LET first_new_index == idxmax_eq(latest.df, last_date) + 1
                           IN  Outcome(File(_append_new_rows(df, latest.df, first_new_index)),
                                       <<"Enriched data">>, FALSE, TRUE)

Idle == call.op = "none"

Init ==
    /\ today = 1
    /\ provider \in Histories(1)
    /\ csv = NoFile
    /\ folder = <<>>
    /\ call = [op |-> "none"]
    /\ printed = <<>>
    /\ seen = <<>>
    /\ logs = NoLogs

TradingDay(d) == weekday(d) \notin {5, 6}

\* A day passes; on a trading day the provider publishes the day's bar.
Tick(q) ==
    /\ Idle
    /\ today < MaxDay
    /\ today' = today + 1
    /\ provider' = IF TradingDay(today + 1)
                   THEN Append(provider, Bar(today + 1, q))
                   ELSE provider
    /\ UNCHANGED <<csv, folder, call, printed, seen, logs>>

Download(duration, net) ==
    /\ Idle
    /\ LET r == download_market_data_for_ticker(csv, duration, net)
       IN  /\ csv' = r.csv
           /\ printed' = r.printed
           /\ call' = [op |-> "download", duration |-> duration, net |-> net,
                       raised |-> r.raised, fetched |-> r.fetched]
    /\ UNCHANGED <<provider, today, folder, seen, logs>>

Enrich(duration, net) ==
    /\ Idle
    /\ LET r == enrich_with_indicators_for_ticker(csv, duration, net)
       IN  /\ csv' = r.csv
           /\ printed' = r.printed
           /\ call' = [op |-> "enrich", duration |-> duration, net |-> net,
                       raised |-> r.raised, fetched |-> r.fetched,
                       stored |-> len(csv)]
    /\ UNCHANGED <<provider, today, folder, seen, logs>>

\* The call returns to its caller.
Return ==
    /\ ~Idle
    /\ call' = [op |-> "none"]
    /\ printed' = <<>>
    /\ UNCHANGED <<provider, today, csv, folder, seen, logs>>

Next ==
    \/ \E q \in Quotes : Tick(q)
    \/ \E duration \in Periods : \E net \in Net : Download(duration, net)
    \/ \E duration \in Periods : \E net \in Net : Enrich(duration, net)
    \/ Return

Spec == Init /\ [][Next]_vars

(***************************************************************************)
(* breakout_checker.py: the price-breakout scans, and the scan             *)
(* specification (SpecScan): check_price_breakout_for_tickers run in both  *)
(* modes over a market-data folder of enriched files.                      *)
(***************************************************************************)
\* The ticker symbols of the scans, in lexicographic order: sorted() orders
\* symbols as this sequence does.
TICKERS == <<"AAPL", "MSFT">>

rank(ticker) == CHOOSE i \in 1..Len(TICKERS) : TICKERS[i] = ticker

\* The list as it is, not sorted.
unsorted(tickers) == tickers

RECURSIVE sorted(_)
sorted(tickers) ==
    IF tickers = <<>> THEN <<>>
    ELSE LET first == CHOOSE i \in 1..Len(tickers) :
                          \A j \in 1..Len(tickers) :
                              \/ rank(tickers[i]) < rank(tickers[j])
                              \/ rank(tickers[i]) = rank(tickers[j]) /\ i <= j
         IN  <<tickers[first]>> \o
             sorted([j \in 1..(Len(tickers) - 1) |->
                        IF j < first THEN tickers[j] ELSE tickers[j + 1]])

\* Python's None, where a price can stand: no price is negative.
None == -1

\* stock.info as the live scan reads it: a dict, here the set of its
\* <<key, value>> items, with or without the keys 'dayHigh' and
\* 'regularMarketPrice'.
Infos ==
    { {},
      {<<"dayHigh", None>>},
      {<<"dayHigh", 105>>},
      {<<"dayHigh", 212>>},
      {<<"dayHigh", 213>>},
      {<<"regularMarketPrice", 213>>} }

\* info.get(key, default)
get(info, key, default) ==
    IF \E item \in info : item[1] = key
    THEN (CHOOSE item \in info : item[1] = key)[2]
    ELSE default

\* bool(price) of None or a number
truthy(price) == price # None /\ price # 0

\* A raised exception is caught and printed, and the ticker is not a breakout.
\* df.iloc[last_index - days:last_index] of _check_historical_breakout: the bars
\* the last stored High is compared with.
historical_window(df, days) ==
    LET last_index == len(df) - 1
    IN  Slice(df, last_index - days, last_index)

_check_historical_breakout(ticker, days, days_ago) ==
    IF ~folder[ticker].exists THEN FALSE
    ELSE LET read == folder[ticker]
             df == IF days_ago > 0 THEN DropLast(read, days_ago) ELSE read
         IN  IF len(df) < days + 1 THEN FALSE
             ELSE LET last_index == len(df) - 1
                      window == historical_window(df, days)
                      previous_high == Iloc(df, last_index)[HIGH]
                  IN  /\ len(window) > 0
                      /\ previous_high > MaxOf(Range(Col(window, HIGH)))

_check_breakout_from_history(tickers, days, days_ago) ==
    sorted(SelectSeq(tickers,
                     LAMBDA ticker : _check_historical_breakout(ticker, days, days_ago)))

_check_breakout_with_live_price(tickers, days, infos) ==
    sorted(SelectSeq(tickers,
        LAMBDA ticker :
            /\ folder[ticker].exists
            /\ LET df == folder[ticker]
                   info == infos[ticker]
                   price == get(info, "dayHigh", get(info, "regularMarketPrice", None))
               IN  truthy(price) /\ check_price_break_n_days_high(df, days, price)))

check_price_breakout_for_tickers(tickers, n_days, use_live_price, infos) ==
    IF use_live_price
    THEN _check_breakout_with_live_price(tickers, n_days, infos)
    ELSE _check_breakout_from_history(tickers, n_days, 0)

\* The bars a price-breakout scan compares the ticker's reference price with;
\* none when the scan does not get to the comparison for that ticker.
compared_window(ticker, days, use_live_price, infos) ==
    IF ~folder[ticker].exists THEN <<>>
    ELSE LET df == folder[ticker]
         IN  IF use_live_price
             THEN LET info == infos[ticker]
                      price == get(info, "dayHigh", get(info, "regularMarketPrice", None))
                  IN  IF truthy(price) /\ len(df) # 0
                      THEN live_window(df, days).rows
                      ELSE <<>>
             ELSE IF len(df) < days + 1 THEN <<>>
                  ELSE historical_window(df, days).rows

compared_windows(tickers, days, use_live_price, infos) ==
    [ticker \in Range(tickers) |-> compared_window(ticker, days, use_live_price, infos)]

\* A raised exception is caught and printed, and the ticker is not bullish.
check_bullish_arrangement_for_ticker(ticker) ==
    IF ~folder[ticker].exists THEN FALSE
    ELSE LET df == folder[ticker]
         IN  IF len(df) = 0 THEN FALSE
             ELSE check_bullish_arrangement_at_index(df, len(df) - 1)

check_bullish_arrangement_for_tickers(tickers) ==
    sorted(SelectSeq(tickers, check_bullish_arrangement_for_ticker))

\* Mutant: the search starts at the row before the last (range(len(df) - 2, ...)).
visited_before_last(df, days) == {i \in 0..(len(df) - 2) : i >= days}

\* The rows range(len(df) - 1, days - 1, -1) visits, as a set.
visited(df, days) == {i \in 0..(len(df) - 1) : i >= days}

_find_last_low_breakout_date(df, m_days) ==
    LET hits == {i \in visited(df, m_days) :
                    Iloc(df, i)[LOW] <= MinOf(Range(Col(Slice(df, i - m_days, i), LOW)))}
    IN  IF hits = {} THEN None ELSE MaxOf(hits)

\* The comparison with > in place of >=.
find_last_high_above_date(df, n_days) ==
    LET hits == {i \in visited(df, n_days) :
                    Iloc(df, i)[HIGH] > MaxOf(Range(Col(Slice(df, i - n_days, i), HIGH)))}
    IN  IF hits = {} THEN None ELSE MaxOf(hits)

_find_last_high_breakout_date(df, n_days) ==
    LET hits == {i \in visited(df, n_days) :
                    Iloc(df, i)[HIGH] >= MaxOf(Range(Col(Slice(df, i - n_days, i), HIGH)))}
    IN  IF hits = {} THEN None ELSE MaxOf(hits)

\* The pairing with the second pair as the default.
paired_m_days_by_default(n_days) ==
    IF n_days = D20 THEN D10 ELSE D20

\* m_days of filter_tickers_by_reset_signal; None where the function returns [].
paired_m_days(n_days) ==
    IF n_days = D20 THEN D10
    ELSE IF n_days = D55 THEN D20
    ELSE None

\* The length test with <= in place of <.
history_not_longer(df, n_days, m_days) ==
    len(df) <= Max2(n_days, m_days) + 1

\* The test that makes the loop of filter_tickers_by_reset_signal continue
\* with the next ticker.
insufficient_history(df, n_days, m_days) ==
    len(df) < Max2(n_days, m_days) + 1

\* The body of the loop of filter_tickers_by_reset_signal for one ticker: a
\* raised exception is caught and printed, and the ticker is not appended.
reset_signal(ticker, n_days, m_days) ==
    IF ~folder[ticker].exists THEN FALSE
    ELSE LET df == folder[ticker]
         IN  IF insufficient_history(df, n_days, m_days) THEN FALSE
             ELSE LET previous_m_days_low_date == _find_last_low_breakout_date(df, m_days)
                      previous_n_days_high_date == _find_last_high_breakout_date(df, n_days)
                  IN  /\ truthy(previous_m_days_low_date)
                      /\ truthy(previous_n_days_high_date)
                      /\ previous_m_days_low_date > previous_n_days_high_date

filter_tickers_by_reset_signal(tickers, n_days) ==
    LET m_days == paired_m_days(n_days)
    IN  IF m_days = None THEN <<>>
        ELSE SelectSeq(tickers, LAMBDA ticker : reset_signal(ticker, n_days, m_days))

\* The files filter_tickers_by_reset_signal opens (pd.read_csv), found or not.
reset_reads(tickers, n_days) ==
    IF paired_m_days(n_days) = None THEN {} ELSE Range(tickers)

\* The tickers whose series filter_tickers_by_reset_signal searches for its
\* last breakdown and breakout (the calls of _find_last_low_breakout_date).
reset_searches(tickers, n_days) ==
    LET m_days == paired_m_days(n_days)
    IN  IF m_days = None THEN {}
        ELSE {ticker \in Range(tickers) :
                 /\ folder[ticker].exists
                 /\ ~insufficient_history(folder[ticker], n_days, m_days)}

\* What the except clauses of a scan print: one line for each ticker of the
\* list, in its order, whose processing raises.
errors(tickers, message, raises(_)) ==
    LET failed == SelectSeq(tickers, raises)
    IN  [i \in 1..Len(failed) |-> <<message, failed[i]>>]

\* pd.read_csv raises for a ticker without a file.
no_file(ticker) == ~folder[ticker].exists

\* df.iloc[-1] raises for a file without rows.
no_file_or_no_rows(ticker) == ~folder[ticker].exists \/ len(folder[ticker]) = 0

\* The lists of symbols the scans are called with.
TickerLists == {<<"AAPL">>, <<"AAPL", "MSFT">>, <<"MSFT", "AAPL">>}

\* A series that never moves: every bar has the same quote.
FlatHistories == {[i \in 1..MaxLen |-> Bar(i, q)] : q \in Quotes}

\* A quiet series with one day at the high quote, the last day or the day
\* before it.
SpikeHistories ==
    LET quiet == CHOOSE q \in Quotes : \A r \in Quotes : q[2] <= r[2]
        spike == CHOOSE q \in Quotes : \A r \in Quotes : q[2] >= r[2]
    IN  {[i \in 1..MaxLen |-> Bar(i, IF i = k THEN spike ELSE quiet)] :
            k \in {MaxLen - 1, MaxLen}}

\* The n_days the reset scan is called with: the two of N_DAYS_HIGH_LIST and
\* two others.
ResetDays == {D10, D20, D30, D55}

ScanInit ==
    /\ provider = <<>>
    /\ today = 0
    /\ csv = NoFile
    /\ folder \in
           [AAPL : {NoFile} \cup {File(_add_all_indicators(RawFrame(h))) :
                                     h \in UNION {Histories(n) : n \in 0..MaxLen}},
            MSFT : {NoFile} \cup {File(_add_all_indicators(RawFrame(h))) :
                                     h \in FlatHistories \cup SpikeHistories}]
    /\ call = [op |-> "none"]
    /\ printed = <<>>
    /\ seen = <<>>
    /\ logs = NoLogs

ScanHistory(tickers, n_days) ==
    /\ call.op = "none"
    /\ call' = [op |-> "scan", tickers |-> tickers, n_days |-> n_days,
                use_live_price |-> FALSE, infos |-> [AAPL |-> {}, MSFT |-> {}],
                windows |-> compared_windows(tickers, n_days, FALSE,
                                             [AAPL |-> {}, MSFT |-> {}]),
                result |-> check_price_breakout_for_tickers(tickers, n_days, FALSE,
                                                            [AAPL |-> {}, MSFT |-> {}])]
    /\ printed' = errors(tickers, "Error checking historical breakout", no_file)
                      \o << <<"Breakout tickers", call'.result>> >>
    /\ UNCHANGED <<provider, today, csv, folder, seen, logs>>

ScanLive(tickers, n_days, infos) ==
    /\ call.op = "none"
    /\ call' = [op |-> "scan", tickers |-> tickers, n_days |-> n_days,
                use_live_price |-> TRUE, infos |-> infos,
                windows |-> compared_windows(tickers, n_days, TRUE, infos),
                result |-> check_price_breakout_for_tickers(tickers, n_days, TRUE, infos)]
    /\ printed' = errors(tickers, "Error checking breakout", no_file)
                      \o << <<"Breakout tickers", call'.result>> >>
    /\ UNCHANGED <<provider, today, csv, folder, seen, logs>>

ScanBullish(tickers) ==
    /\ call.op = "none"
    /\ call' = [op |-> "bullish", tickers |-> tickers,
                result |-> check_bullish_arrangement_for_tickers(tickers)]
    /\ printed' = errors(tickers, "Error checking bullish arrangement", no_file_or_no_rows)
    /\ UNCHANGED <<provider, today, csv, folder, seen, logs>>

ScanReset(tickers, n_days) ==
    /\ call.op = "none"
    /\ call' = [op |-> "reset", tickers |-> tickers, n_days |-> n_days,
                m_days |-> paired_m_days(n_days),
                reads |-> reset_reads(tickers, n_days),
                searches |-> reset_searches(tickers, n_days),
                result |-> filter_tickers_by_reset_signal(tickers, n_days)]
    /\ printed' = IF paired_m_days(n_days) = None THEN <<>>
                  ELSE errors(tickers, "Error processing", no_file)
    /\ UNCHANGED <<provider, today, csv, folder, seen, logs>>

ScanNext ==
    \/ \E tickers \in TickerLists : \E n_days \in Range(N_DAYS_HIGH_LIST) :
           ScanHistory(tickers, n_days)
    \/ \E tickers \in TickerLists : \E n_days \in Range(N_DAYS_HIGH_LIST) :
           \E infos \in [AAPL : Infos,
                          MSFT : {{<<"dayHigh", 105>>}, {<<"dayHigh", 213>>}}] :
               ScanLive(tickers, n_days, infos)
    \/ \E tickers \in TickerLists : ScanBullish(tickers)
    \/ \E tickers \in TickerLists : \E n_days \in ResetDays : ScanReset(tickers, n_days)

SpecScan == ScanInit /\ [][ScanNext]_vars

(***************************************************************************)
(* The batch specification (SpecBatch): each operation over a list of      *)
(* symbols, run once over a market-data folder of two symbols.  The two    *)
(* symbols trade the same bars (provider); their files and the provider's  *)
(* answer to a request differ from symbol to symbol.                       *)
(***************************************************************************)
\* The loop runs to its end only when nothing raises: the first exception
\* leaves the loop, and the symbols after it are not processed.
RECURSIVE for_tickers_until_error(_, _, _, _, _)
for_tickers_until_error(state, tickers, duration, nets, enriching) ==
    IF tickers = <<>> THEN state
    ELSE LET ticker == Head(tickers)
             r == IF enriching
                  THEN enrich_with_indicators_for_ticker(state.files[ticker], duration,
                                                         nets[ticker])
                  ELSE download_market_data_for_ticker(state.files[ticker], duration,
                                                       nets[ticker])
         IN  IF r.raised
             THEN [files |-> state.files,
                   printed |-> state.printed \o
                       << <<IF enriching THEN "Error enriching" ELSE "Error downloading",
                            ticker>> >>]
             ELSE for_tickers_until_error(
                      [files |-> [state.files EXCEPT ![ticker] = r.csv],
                       printed |-> state.printed \o
                           [i \in 1..Len(r.printed) |-> <<r.printed[i], ticker>>]],
                      Tail(tickers), duration, nets, enriching)

\* The loops of download_market_data_for_tickers (enriching = FALSE) and
\* enrich_with_indicators_for_tickers (enriching = TRUE): each ticker in a try,
\* the exception printed with the ticker.
RECURSIVE for_tickers(_, _, _, _, _)
for_tickers(state, tickers, duration, nets, enriching) ==
    IF tickers = <<>> THEN state
    ELSE LET ticker == Head(tickers)
             r == IF enriching
                  THEN enrich_with_indicators_for_ticker(state.files[ticker], duration,
                                                         nets[ticker])
                  ELSE download_market_data_for_ticker(state.files[ticker], duration,
                                                       nets[ticker])
             next == IF r.raised
                     THEN [files |-> state.files,
                           printed |-> state.printed \o
                               << <<IF enriching THEN "Error enriching"
                                    ELSE "Error downloading", ticker>> >>]
                     ELSE [files |-> [state.files EXCEPT ![ticker] = r.csv],
                           printed |-> state.printed \o
                               [i \in 1..Len(r.printed) |-> <<r.printed[i], ticker>>]]
         IN  for_tickers(next, Tail(tickers), duration, nets, enriching)

download_market_data_for_tickers(files, tickers, duration, nets) ==
    for_tickers([files |-> files, printed |-> <<>>], tickers, duration, nets, FALSE)

enrich_with_indicators_for_tickers(files, tickers, duration, nets) ==
    for_tickers([files |-> files, printed |-> <<>>], tickers, duration, nets, TRUE)

\* The bar series of the batch specification and the files a ticker can have
\* of one: none, one without rows, one last written three days or one day
\* before the last bar.
BatchHistories == SpikeHistories

BatchFiles(h) ==
    {NoFile, File(_add_all_indicators(RawFrame(<<>>)))} \cup
    {File(_add_all_indicators(RawFrame(SubSeq(h, 1, k)))) : k \in {MaxLen - 3, MaxLen - 1}}

BatchInit ==
    /\ provider \in BatchHistories
    /\ today \in {MaxLen, MaxLen + 1}
    /\ csv = NoFile
    /\ folder \in [AAPL : BatchFiles(provider), MSFT : BatchFiles(provider)]
    /\ call = [op |-> "none"]
    /\ printed = <<>>
    /\ seen = <<>>
    /\ logs = NoLogs

DownloadAll(tickers, duration, nets) ==
    /\ call.op = "none"
    /\ LET r == download_market_data_for_tickers(folder, tickers, duration, nets)
       IN  /\ folder' = r.files
           /\ printed' = r.printed
    /\ call' = [op |-> "download_all", tickers |-> tickers, duration |-> duration,
                nets |-> nets]
    /\ UNCHANGED <<provider, today, csv, seen, logs>>

EnrichAll(tickers, duration, nets) ==
    /\ call.op = "none"
    /\ LET r == enrich_with_indicators_for_tickers(folder, tickers, duration, nets)
       IN  /\ folder' = r.files
           /\ printed' = r.printed
    /\ call' = [op |-> "enrich_all", tickers |-> tickers, duration |-> duration,
                nets |-> nets]
    /\ UNCHANGED <<provider, today, csv, seen, logs>>

BatchNext ==
    \/ \E tickers \in TickerLists : \E duration \in Periods :
           \E nets \in [AAPL : Net, MSFT : Net] : DownloadAll(tickers, duration, nets)
    \/ \E tickers \in TickerLists : \E duration \in Periods :
           \E nets \in [AAPL : Net, MSFT : Net] : EnrichAll(tickers, duration, nets)
    \/ \E tickers \in TickerLists : \E n_days \in Range(N_DAYS_HIGH_LIST) :
           ScanHistory(tickers, n_days)
    \/ \E tickers \in TickerLists : \E n_days \in Range(N_DAYS_HIGH_LIST) :
           \E infos \in [AAPL : Infos, MSFT : {{<<"dayHigh", 213>>}}] :
               ScanLive(tickers, n_days, infos)
    \/ \E tickers \in TickerLists : ScanBullish(tickers)
    \/ \E tickers \in TickerLists : \E n_days \in ResetDays : ScanReset(tickers, n_days)

SpecBatch == BatchInit /\ [][BatchNext]_vars

(***************************************************************************)
(* The save specification (SpecSave): save_csv followed step by step, with *)
(* a reader of the same file running beside it.  df.to_csv(full_path, ...) *)
(* opens full_path for writing, which empties the file, writes the header  *)
(* line and the rows through a buffer that reaches the file a block at a   *)
(* time, and closes the file.  The reader (pd.read_csv of the dashboard or *)
(* of a scan) shares no lock with the writer.                              *)
(***************************************************************************)
\* The file when the first `lines` lines of df have reached it: line 1 is the
\* header, line i + 1 the i-th row.
to_csv(df, lines) ==
    [columns |-> IF lines >= 1 THEN df.columns ELSE <<>>,
     rows |-> SubSeq(df.rows, 1, Max2(0, lines - 1)),
     exists |-> TRUE]

\* The lines of the csv of df.
lines_of(df) == len(df) + 1

\* The calls of save_csv: download_market_data_for_ticker after a download,
\* enrich_with_indicators_for_ticker after appending.
saves(r) == r.printed \in {<<"Downloaded and processed data">>, <<"Enriched data">>}

SaveInit ==
    /\ provider \in BatchHistories
    /\ today \in {MaxLen, MaxLen + 1}
    /\ csv \in BatchFiles(provider)
    /\ folder = <<>>
    /\ call = [op |-> "none"]
    /\ printed = <<>>
    /\ seen = <<>>
    /\ logs = NoLogs

\* save_csv(df, path, file_name) up to the opening of the file by to_csv.
SaveOpen(enriching, duration) ==
    /\ call.op = "none"
    /\ LET r == IF enriching
                THEN enrich_with_indicators_for_ticker(csv, duration, "ok")
                ELSE download_market_data_for_ticker(csv, duration, "ok")
       IN  /\ saves(r)
           /\ call' = [op |-> "save_csv", before |-> csv, df |-> r.csv, lines |-> 0]
           /\ csv' = to_csv(r.csv, 0)
    /\ UNCHANGED <<provider, today, folder, printed, seen, logs>>

\* The buffer of to_csv reaches the file: the lines up to line `lines`.
SaveWrite(lines) ==
    /\ call.op = "save_csv"
    /\ lines > call.lines
    /\ lines <= lines_of(call.df)
    /\ call' = [call EXCEPT !.lines = lines]
    /\ csv' = to_csv(call.df, lines)
    /\ UNCHANGED <<provider, today, folder, printed, seen, logs>>

\* to_csv closes the file and save_csv returns.
SaveClose ==
    /\ call.op = "save_csv"
    /\ call.lines = lines_of(call.df)
    /\ call' = [op |-> "none"]
    /\ UNCHANGED <<provider, today, csv, folder, printed, seen, logs>>

\* The reader reads the file as it is.
Read ==
    /\ seen # <<csv>>
    /\ seen' = <<csv>>
    /\ UNCHANGED <<provider, today, csv, folder, call, printed, logs>>

SaveNext ==
    \/ \E enriching \in BOOLEAN : \E duration \in Periods : SaveOpen(enriching, duration)
    \/ \E lines \in 1..(MaxLen + 2) : SaveWrite(lines)
    \/ SaveClose
    \/ Read

SpecSave == SaveInit /\ [][SaveNext]_vars

(***************************************************************************)
(* The scheduled scripts (SpecJob): a run of main() of                     *)
(* script_breakout_check_market_close.py and of                            *)
(* script_breakout_check_market_open.py, and the multiple-signal scan of   *)
(* turtle_trading.py, over the stored series of `folder`.  A log file is   *)
(* the sequence of its lines, a line the string                            *)
(* the script writes without its newline.  str(date.today()) is the day    *)
(* number, str(datetime.now()) the day number followed by the time of day. *)
(***************************************************************************)
\* A main log takes a new run while it holds at most this many lines.
MaxLogLines == 3

\* The times of day at which the scheduler starts a script.
Times == {"09:31:05.000001", "16:00:05.000002"}

\* The ticker lists get_all_unique_tickers returns.
Universes == {<<>>, <<"AAPL">>, <<"AAPL", "MSFT">>}

\* str(datetime.now())
now(time) == ToString(today) \o " " \o time

\* ', '.join(items)
RECURSIVE join(_)
join(items) ==
    IF items = <<>> THEN ""
    ELSE IF Len(items) = 1 THEN items[1]
    ELSE items[1] \o ", " \o join(Tail(items))

\* f'{level:6}'
padded(level) ==
    CASE level = "START" -> "START "
      [] level = "INFO" -> "INFO  "
      [] level = "WARN" -> "WARN  "
      [] level = "END" -> "END   "
      [] OTHER -> level

\* open(file_path, 'a').write(line + '\n')
append_line(files, file_path, line) ==
    [files EXCEPT ![file_path] = Append(@, line)]

log_message(files, file_path, level, message, time) ==
    append_line(files, file_path,
                "[" \o padded(level) \o "] " \o now(time) \o " " \o message)

\* What a run has done so far: the log files, whether the ticker universe was
\* loaded, the periods scanned with the lists the scans returned, the lines
\* printed.
Run(files, loaded, scanned, results, output) ==
    [logs |-> files, loaded |-> loaded, scanned |-> scanned,
     results |-> results, printed |-> output]

\* check_breakouts_for_period of script_breakout_check_market_close.py.
check_breakouts_for_period_market_close(run, tickers, n_days, time) ==
    LET breakout_tickers ==
            check_price_breakout_for_tickers(tickers, n_days, FALSE,
                                             [AAPL |-> {}, MSFT |-> {}])
        log_entry == ToString(n_days) \o "-days high Breakout tickers: "
                         \o join(breakout_tickers)
                         \o " (Count: " \o ToString(Len(breakout_tickers)) \o ")"
        daily == append_line(run.logs, BREAKOUT_LOG_MARKET_CLOSE,
                             "[" \o ToString(today) \o "] " \o log_entry)
    IN  Run(log_message(daily, MAIN_LOG_BREAKOUT_MARKET_CLOSE, "INFO", log_entry, time),
            run.loaded,
            Append(run.scanned, n_days),
            Append(run.results, breakout_tickers),
            run.printed
                \o errors(tickers, "Error checking historical breakout", no_file)
                \o << <<"Breakout tickers", breakout_tickers>> >>)

\* check_breakouts_for_period of script_breakout_check_market_open.py.
check_breakouts_for_period_market_open(run, tickers, n_days, time, infos) ==
    LET breakout_tickers ==
            check_price_breakout_for_tickers(tickers, n_days, TRUE, infos)
        log_entry == ToString(n_days) \o "-days high breakout tickers: "
                         \o join(breakout_tickers)
                         \o " (count: " \o ToString(Len(breakout_tickers)) \o ")"
        main == log_message(run.logs, MAIN_LOG_BREAKOUT_MARKET_OPEN, "INFO",
                            log_entry, time)
    IN  Run(append_line(main, BREAKOUT_LOG_MARKET_OPEN,
                        "[" \o now(time) \o "] " \o log_entry),
            run.loaded,
            Append(run.scanned, n_days),
            Append(run.results, breakout_tickers),
            run.printed
                \o errors(tickers, "Error checking breakout", no_file)
                \o << <<"Breakout tickers", breakout_tickers>>,
                      <<"log_entry", log_entry>> >>)

\* The loop over N_DAYS_HIGH_LIST after its first k periods.
RECURSIVE periods_market_close(_, _, _, _)
periods_market_close(run, tickers, k, time) ==
    IF k = 0 THEN run
    ELSE check_breakouts_for_period_market_close(
             periods_market_close(run, tickers, k - 1, time),
             tickers, N_DAYS_HIGH_LIST[k], time)

RECURSIVE periods_market_open(_, _, _, _, _)
periods_market_open(run, tickers, k, time, infos) ==
    IF k = 0 THEN run
    ELSE check_breakouts_for_period_market_open(
             periods_market_open(run, tickers, k - 1, time, infos),
             tickers, N_DAYS_HIGH_LIST[k], time, infos)

\* main() of script_breakout_check_market_close.py.
main_market_close(files, tickers, time) ==
    LET main_log_path == MAIN_LOG_BREAKOUT_MARKET_CLOSE
        started == log_message(
                       log_message(files, main_log_path, "START",
                                   "Check breakout at market close job started", time),
                       main_log_path, "INFO", "Current script directory is src/", time)
        ended(fs) == log_message(fs, main_log_path, "END",
                                 "Check breakout at market close job ended", time)
    IN  IF tickers = <<>>
        THEN Run(ended(log_message(started, main_log_path, "WARN",
                                   "No tickers found to process", time)),
                 TRUE, <<>>, <<>>, <<>>)
        ELSE LET run == periods_market_close(Run(started, TRUE, <<>>, <<>>, <<>>),
                                             tickers, Len(N_DAYS_HIGH_LIST), time)
             IN  [run EXCEPT !.logs = ended(run.logs)]

\* Mutant: the market-closed branch writes nothing to the open log.
market_closed_unlogged(files, time) ==
    log_message(files, MAIN_LOG_BREAKOUT_MARKET_OPEN, "INFO",
                "Market is closed, skip checking breakout", time)

handle_market_closed(files, time) ==
    LET message == "Market is closed, no breakout check performed"
        main == log_message(files, MAIN_LOG_BREAKOUT_MARKET_OPEN, "INFO",
                            "Market is closed, skip checking breakout", time)
    IN  append_line(main, BREAKOUT_LOG_MARKET_OPEN, "[" \o now(time) \o "] " \o message)

\* main() of script_breakout_check_market_open.py.
main_market_open(files, market_is_open, tickers, time, infos) ==
    LET main_log_path == MAIN_LOG_BREAKOUT_MARKET_OPEN
        started == log_message(files, main_log_path, "START",
                               "Check breakout at market open job started", time)
        ended(fs) == log_message(fs, main_log_path, "END",
                                 "Check breakout at market open job ended", time)
    IN  IF ~market_is_open
        THEN Run(ended(handle_market_closed(started, time)), FALSE, <<>>, <<>>, <<>>)
        ELSE IF tickers = <<>>
        THEN Run(ended(log_message(started, main_log_path, "WARN",
                                   "No tickers found to process", time)),
                 TRUE, <<>>, <<>>, <<>>)
        ELSE LET run == periods_market_open(Run(started, TRUE, <<>>, <<>>, <<>>),
                                            tickers, Len(N_DAYS_HIGH_LIST), time, infos)
             IN  [run EXCEPT !.logs = ended(run.logs)]

\* breakout_checker.py: the moving-average crossover at the last row.
_check_ma_crossover(df, first_ma, second_ma) ==
    IF len(df) < 3 THEN FALSE
    ELSE /\ Iloc(df, len(df) - 1)[first_ma] > Iloc(df, len(df) - 1)[second_ma]
         /\ Iloc(df, len(df) - 2)[first_ma] < Iloc(df, len(df) - 2)[second_ma]

\* A raised exception (no file) is caught and printed.
check_moving_average_breakout_for_tickers(tickers, first_ma, second_ma) ==
    sorted(SelectSeq(tickers,
        LAMBDA ticker :
            /\ folder[ticker].exists
            /\ _check_ma_crossover(folder[ticker], first_ma, second_ma)))

\* [item for single_list in multiple_lists for item in single_list]
RECURSIVE combined_list(_)
combined_list(multiple_lists) ==
    IF multiple_lists = <<>> THEN <<>>
    ELSE Head(multiple_lists) \o combined_list(Tail(multiple_lists))

\* helper.py: the items met again after they were seen, as a set.
get_duplicated_items_from_lists(multiple_lists) ==
    LET combined == combined_list(multiple_lists)
    IN  {combined[i] : i \in {k \in 1..Len(combined) :
                                 \E j \in 1..(k - 1) : combined[j] = combined[k]}}

\* turtle_trading.py: the three scans and the list of each.
signal_lists(tickers, ma_short, ma_long) ==
    LET price_breakout_tickers ==
            check_price_breakout_for_tickers(tickers, D20, FALSE,
                                             [AAPL |-> {}, MSFT |-> {}])
        ma_breakout_tickers ==
            check_moving_average_breakout_for_tickers(tickers, ma_short, ma_long)
        bullish_arrangement_tickers == check_bullish_arrangement_for_tickers(tickers)
    IN  <<price_breakout_tickers, ma_breakout_tickers, bullish_arrangement_tickers>>

identify_multiple_signal_opportunities(tickers, ma_short, ma_long) ==
    get_duplicated_items_from_lists(signal_lists(tickers, ma_short, ma_long))

\* The stored series the scripts scan.
JobFiles == {NoFile} \cup {File(_add_all_indicators(RawFrame(h))) : h \in SpikeHistories}

JobInit ==
    /\ provider = <<>>
    /\ today = MaxLen
    /\ csv = NoFile
    /\ folder \in [AAPL : JobFiles, MSFT : JobFiles]
    /\ call = [op |-> "none"]
    /\ printed = <<>>
    /\ seen = <<>>
    /\ logs = NoLogs

\* The scheduler runs script_breakout_check_market_close.py.
MarketClose(tickers, time) ==
    /\ Len(logs[MAIN_LOG_BREAKOUT_MARKET_CLOSE]) <= MaxLogLines
    /\ LET run == main_market_close(logs, tickers, time)
       IN  /\ logs' = run.logs
           /\ printed' = run.printed
           /\ call' = [op |-> "market_close", tickers |-> tickers, time |-> time,
                       loaded |-> run.loaded, scanned |-> run.scanned,
                       results |-> run.results]
    /\ UNCHANGED <<provider, today, csv, folder, seen>>

\* The scheduler runs script_breakout_check_market_open.py; the market is
\* open or not, as check_if_market_is_open finds.
MarketOpen(market_is_open, tickers, time, infos) ==
    /\ Len(logs[MAIN_LOG_BREAKOUT_MARKET_OPEN]) <= MaxLogLines
    /\ LET run == main_market_open(logs, market_is_open, tickers, time, infos)
       IN  /\ logs' = run.logs
           /\ printed' = run.printed
           /\ call' = [op |-> "market_open", tickers |-> tickers, time |-> time,
                       market_is_open |-> market_is_open,
                       loaded |-> run.loaded, scanned |-> run.scanned,
                       results |-> run.results]
    /\ UNCHANGED <<provider, today, csv, folder, seen>>

\* turtle_trading.py: identify_multiple_signal_opportunities(tickers) with the
\* default moving averages.
MultipleSignals(tickers) ==
    /\ call' = [op |-> "signals", tickers |-> tickers,
                lists |-> signal_lists(tickers, "MA-20", "MA-50"),
                result |-> identify_multiple_signal_opportunities(tickers, "MA-20", "MA-50")]
    /\ printed' = errors(tickers, "Error checking historical breakout", no_file)
                      \o << <<"Breakout tickers", call'.lists[1]>> >>
                      \o errors(tickers, "Error checking MA breakout", no_file)
                      \o errors(tickers, "Error checking bullish arrangement",
                                no_file_or_no_rows)
    /\ UNCHANGED <<provider, today, csv, folder, seen, logs>>

JobNext ==
    \/ \E tickers \in TickerLists : MultipleSignals(tickers)
    \/ \E tickers \in Universes : \E time \in Times : MarketClose(tickers, time)
    \/ \E market_is_open \in BOOLEAN : \E tickers \in Universes : \E time \in Times :
           \E infos \in [AAPL : {{<<"dayHigh", 105>>}, {<<"dayHigh", 213>>}},
                         MSFT : {{<<"dayHigh", 213>>}}] :
               MarketOpen(market_is_open, tickers, time, infos)

SpecJob == JobInit /\ [][JobNext]_vars

(***************************************************************************)
(* Claims about the calculator (checked under SpecCalc).                   *)
(***************************************************************************)
Batch == call.op = "batch"
Appended == call.op = "append"
DERIVED_COLUMNS == columns_to_add

\* w = min(D, i+1) rows ending at row i (rows counted from 1 here: min(D, i)).
Window(D, i) == (i - Min2(D, i) + 1)..i

\* C1 (as claimed): append(enrich(bars[0..k)), frame) equals enrich(bars[0..n))
\* in every derived column of every row.
C1_AppendConsistency ==
    Appended =>
        LET full == _add_all_indicators(RawFrame(provider))
        IN  /\ len(csv) = len(full)
            /\ \A i \in 1..len(full) : \A c \in Range(DERIVED_COLUMNS) :
                   csv.rows[i][c] = full.rows[i][c]

\* C3 (as claimed): enriching bars[0..m) and bars[0..n) gives the same derived
\* values at every row i < m, for every m <= n.
C3_NoLookahead ==
    Batch =>
        \A m \in 1..Len(provider) :
            LET pre == _add_all_indicators(RawFrame(SubSeq(provider, 1, m)))
            IN  \A i \in 1..m : \A c \in Range(DERIVED_COLUMNS) :
                    pre.rows[i][c] = csv.rows[i][c]

\* C4 (as claimed): the batch MA-D column holds round(mean(Close[i-w+1..i]), 4),
\* w = min(D, i+1), at every row of every non-empty series.
C4_MAShrinkRule ==
    Batch =>
        \A c \in Range(MOVING_AVERAGE_COLUMNS) : \A i \in 1..len(csv) :
            LET W == Window(Days(c), i)
            IN  csv.rows[i][c] =
                    Round(SumSeq([j \in 1..Cardinality(W) |->
                                     csv.rows[i - Cardinality(W) + j][CLOSE]]),
                          Cardinality(W))

\* C5: in the batch ATR-D column, row i < D holds round(mean(TrueRange[0..i]), 4)
\* and row i >= D holds round((ATR-D[i-1]*(D-1) + TrueRange[i]) / D, 4), ATR-D[i-1]
\* being the rounded value stored for the previous row.
C5_ATRRecursion ==
    Batch =>
        \A c \in {ATR_20, ATR_55} : \A i \in 1..len(csv) :
            LET D == Days(c)
            IN  IF i - 1 < D
                THEN csv.rows[i][c] =
                         Round(SumSeq([j \in 1..i |-> csv.rows[j][TRUE_RANGE]]), i)
                ELSE csv.rows[i][c] =
                         Round(csv.rows[i - 1][c] * (D - 1) + csv.rows[i][TRUE_RANGE], D)

\* A batch series longer than the longer ATR window in which both branches
\* round: a mean of the first rows and a recursive step are not whole numbers.
C5_Witness ==
    /\ Batch
    /\ len(csv) > D55
    /\ \E i \in 2..D20 :
           SumSeq([j \in 1..i |-> csv.rows[j][TRUE_RANGE]]) % i # 0
    /\ \E i \in (D55 + 1)..len(csv) :
           (csv.rows[i - 1][ATR_55] * (D55 - 1) + csv.rows[i][TRUE_RANGE]) % D55 # 0

\* C6: TrueRange[0] = High[0] - Low[0]; for i > 0 TrueRange[i] =
\* max(High[i]-Low[i], |High[i]-Close[i-1]|, |Low[i]-Close[i-1]|).
C6_TrueRange ==
    call.op # "none" =>
        \A i \in 1..len(csv) :
            LET r == csv.rows[i]
            IN  IF i = 1 THEN r[TRUE_RANGE] = r[HIGH] - r[LOW]
                ELSE LET pc == csv.rows[i - 1][CLOSE]
                     IN  r[TRUE_RANGE] =
                             MaxOf({r[HIGH] - r[LOW], Abs(r[HIGH] - pc), Abs(r[LOW] - pc)})

\* A batch series with a gap up, a gap down and a day inside yesterday's range:
\* each of the three terms is the strict maximum at some row.
C6_Witness ==
    /\ Batch
    /\ \E i \in 2..len(csv) :
           LET r == csv.rows[i]
               pc == csv.rows[i - 1][CLOSE]
           IN  r[TRUE_RANGE] = pc - r[LOW] /\ pc - r[LOW] > r[HIGH] - r[LOW]
    /\ \E i \in 2..len(csv) :
           LET r == csv.rows[i]
               pc == csv.rows[i - 1][CLOSE]
           IN  r[TRUE_RANGE] = r[HIGH] - pc /\ r[HIGH] - pc > r[HIGH] - r[LOW]
    /\ \E i \in 2..len(csv) :
           LET r == csv.rows[i]
               pc == csv.rows[i - 1][CLOSE]
           IN  /\ r[TRUE_RANGE] = r[HIGH] - r[LOW]
               /\ r[HIGH] - r[LOW] > Abs(r[HIGH] - pc)
               /\ r[HIGH] - r[LOW] > Abs(r[LOW] - pc)

\* C7: the batch N-Days High column for window D holds max(High[i-w+1..i]) and the
\* batch N-Days Low column holds min(Low[i-w+1..i]), w = min(D, i+1).
C7_RollingExtrema ==
    Batch =>
        \A i \in 1..len(csv) :
            /\ \A c \in Range(N_DAYS_HIGH_COLUMNS) :
                   csv.rows[i][c] = MaxOf({csv.rows[j][HIGH] : j \in Window(Days(c), i)})
            /\ \A c \in Range(N_DAYS_LOW_COLUMNS) :
                   csv.rows[i][c] = MinOf({csv.rows[j][LOW] : j \in Window(Days(c), i)})

\* A batch series longer than the longest window with a row whose 20-day window
\* the highest High so far has left and a row whose 20-day window the lowest Low
\* so far has left.
C7_Witness ==
    /\ Batch
    /\ len(csv) > D200
    /\ \E i \in 1..len(csv) :
           csv.rows[i]["20-Days High"] < MaxOf({csv.rows[j][HIGH] : j \in 1..i})
    /\ \E i \in 1..len(csv) :
           csv.rows[i]["20-Days Low"] > MinOf({csv.rows[j][LOW] : j \in 1..i})

StrictChain(row) ==
    \A j \in 1..(Len(MOVING_AVERAGE_COLUMNS) - 1) :
        row[MOVING_AVERAGE_COLUMNS[j]] > row[MOVING_AVERAGE_COLUMNS[j + 1]]

\* C8: check_bullish_arrangement_at_index is true at row i iff
\* MA-5 > MA-10 > MA-20 > MA-30 > MA-50 > MA-100 > MA-200 strictly at row i.
C8_BullishAtIndex ==
    Batch =>
        \A i \in 1..len(csv) : csv.rows[i][BULLISH_ARRANGEMENT] = StrictChain(csv.rows[i])

\* A batch series with a bullish row, a row whose chain fails only by ties and
\* a row whose chain fails only by inversions.
C8_Witness ==
    /\ Batch
    /\ \E i \in 1..len(csv) : csv.rows[i][BULLISH_ARRANGEMENT] = TRUE
    /\ \E i \in 1..len(csv) :
           /\ csv.rows[i][BULLISH_ARRANGEMENT] = FALSE
           /\ \A j \in 1..(Len(MOVING_AVERAGE_COLUMNS) - 1) :
                  csv.rows[i][MOVING_AVERAGE_COLUMNS[j]]
                      >= csv.rows[i][MOVING_AVERAGE_COLUMNS[j + 1]]
    /\ \E i \in 1..len(csv) :
           /\ csv.rows[i][BULLISH_ARRANGEMENT] = FALSE
           /\ \A j \in 1..(Len(MOVING_AVERAGE_COLUMNS) - 1) :
                  csv.rows[i][MOVING_AVERAGE_COLUMNS[j]]
                      # csv.rows[i][MOVING_AVERAGE_COLUMNS[j + 1]]

\* C9 (as claimed): in every persisted series, downloaded or extended by the
\* incremental updater, the stored Bullish flag of every row is true iff the
\* stored moving averages of that row are in strict descending order.
C9_StoredBullish ==
    call.op \in {"batch", "append"} =>
        \A i \in 1..len(csv) : csv.rows[i][BULLISH_ARRANGEMENT] = StrictChain(csv.rows[i])

(***************************************************************************)
(* Claims about the updater (checked under Spec).                          *)
(***************************************************************************)
\* C2 (as claimed): when the last stored date is not among the dates of the
\* freshly fetched bars, enrich_with_indicators_for_ticker reports the gap and
\* leaves the stored series as it was.
C2_AnchorMissing ==
    [][(/\ call.op = "none"
        /\ call'.op = "enrich"
        /\ csv.exists
        /\ len(csv) > 0
        /\ ~_is_data_current(LastDate(csv), today, today - 1)
        /\ call'.net # "error"
        /\ LastDate(csv) \notin {bar[DATE] : bar \in Range(History(call'.duration))})
       => (csv' = csv /\ printed' = <<"Could not find matching date">>)]_vars

(***************************************************************************)
(* Claims about the scans (checked under SpecScan).                        *)
(***************************************************************************)
Scanned == call.op = "scan"

\* The highest High of rows a..b of a stored series (rows counted from 1).
HighestHigh(file, a, b) == MaxOf({file.rows[i][HIGH] : i \in a..b})

DayHigh(info) == {item[2] : item \in {it \in info : it[1] = "dayHigh"}}

\* C10 (as claimed): in both modes a symbol is included iff its reference price
\* (last stored High, or the live day high) is strictly greater than the maximum
\* High of the comparison window (min(nDays, available) bars, before the last
\* bar in historical mode, up to the last bar in live mode).
C10_BreakoutStrictness ==
    Scanned =>
        \A ticker \in Range(call.tickers) :
            LET file == folder[ticker]
                n == len(file)
                D == call.n_days
            IN  IF call.use_live_price
                THEN \A price \in DayHigh(call.infos[ticker]) \ {None} :
                         (file.exists /\ n >= 1) =>
                             (ticker \in Range(call.result)
                                  <=> price > HighestHigh(file, n - Min2(D, n) + 1, n))
                ELSE (file.exists /\ n >= 2) =>
                         (ticker \in Range(call.result)
                              <=> file.rows[n][HIGH]
                                      > HighestHigh(file, n - Min2(D, n - 1), n - 1))

\* The price the live scan compares: 'dayHigh' when the key is there, else
\* 'regularMarketPrice'; no price when the value is None or zero.
LivePrices(info) ==
    LET values == IF DayHigh(info) # {} THEN DayHigh(info)
                  ELSE {item[2] : item \in {it \in info : it[1] = "regularMarketPrice"}}
    IN  values \ {None, 0}

\* C10 (amended): a symbol is included iff its file can be read and, in
\* historical mode, the series has at least nDays + 1 bars and its last High is
\* strictly greater than the highest High of the nDays bars before it; in live
\* mode, a live price is available and is strictly greater than the highest High
\* of the last min(nDays, length) stored bars.  An equal price never qualifies.
C10_BreakoutStrictnessAmended ==
    Scanned =>
        \A ticker \in Range(call.tickers) :
            LET file == folder[ticker]
                n == len(file)
                D == call.n_days
            IN  ticker \in Range(call.result) <=>
                    /\ file.exists
                    /\ IF call.use_live_price
                       THEN /\ n >= 1
                            /\ \E price \in LivePrices(call.infos[ticker]) :
                                   price > HighestHigh(file, n - Min2(D, n) + 1, n)
                       ELSE /\ n >= D + 1
                            /\ file.rows[n][HIGH] > HighestHigh(file, n - D, n - 1)

\* A 55-day scan of both symbols that returns one of them: the other's
\* reference price equals its window maximum and it is left out.
C10_Witness ==
    /\ Scanned
    /\ call.n_days = D55
    /\ Len(call.tickers) = 2
    /\ call.result = <<"AAPL">>
    /\ folder["MSFT"].exists
    /\ LET file == folder["MSFT"]
           n == len(file)
       IN  IF call.use_live_price
           THEN LivePrices(call.infos["MSFT"]) = {HighestHigh(file, n - D55 + 1, n)}
           ELSE file.rows[n][HIGH] = HighestHigh(file, n - D55, n - 1)

\* Rows a..b of a stored series (rows counted from 1).
Bars(file, a, b) == SubSeq(file.rows, a, b)

\* C11 (as claimed): for every stored series of L >= 1 bars the scan compares
\* against min(nDays, available) bars, the bars before the last bar in
\* historical mode and the bars up to the last bar in live mode; a series of
\* fewer than nDays + 1 bars is still evaluated in historical mode.
C11_BreakoutWindow ==
    Scanned =>
        \A ticker \in Range(call.tickers) :
            LET file == folder[ticker]
                L == len(file)
                D == call.n_days
            IN  (file.exists /\ L >= 1) =>
                    IF call.use_live_price
                    THEN LivePrices(call.infos[ticker]) # {} =>
                             call.windows[ticker] = Bars(file, L - Min2(D, L) + 1, L)
                    ELSE call.windows[ticker] = Bars(file, L - Min2(D, L - 1), L - 1)

\* C11 (amended): in live mode the scan compares against the last min(nDays, L)
\* stored bars, the last bar among them; in historical mode it compares a series
\* of L >= nDays + 1 bars against exactly the nDays bars before the last bar,
\* and a series of fewer than nDays + 1 bars is not evaluated and not included.
C11_BreakoutWindowAmended ==
    Scanned =>
        \A ticker \in Range(call.tickers) :
            LET file == folder[ticker]
                L == len(file)
                D == call.n_days
            IN  (file.exists /\ L >= 1) =>
                    IF call.use_live_price
                    THEN LivePrices(call.infos[ticker]) # {} =>
                             call.windows[ticker] = Bars(file, L - Min2(D, L) + 1, L)
                    ELSE IF L >= D + 1
                         THEN call.windows[ticker] = Bars(file, L - D, L - 1)
                         ELSE /\ call.windows[ticker] = <<>>
                              /\ ticker \notin Range(call.result)

\* A historical 20-day scan of a series of exactly 21 bars (in the scale of the
\* model, D20 + 1), which is compared against its first 20 bars and breaks out.
C11_Witness ==
    /\ Scanned
    /\ ~call.use_live_price
    /\ call.n_days = D20
    /\ folder["AAPL"].exists
    /\ len(folder["AAPL"]) = D20 + 1
    /\ Len(call.windows["AAPL"]) = D20
    /\ "AAPL" \in Range(call.result)

Reset == call.op = "reset"

\* The rows i (counted from 1) with a full window of m bars before them whose
\* Low is at or below the lowest Low of that window, and the rows j with a full
\* window of n bars before them whose High is at or above its highest High.
BreakdownRows(file, m) ==
    {i \in (m + 1)..len(file) :
        \A k \in (i - m)..(i - 1) : file.rows[i][LOW] <= file.rows[k][LOW]}

BreakoutRows(file, n) ==
    {j \in (n + 1)..len(file) :
        \A k \in (j - n)..(j - 1) : file.rows[j][HIGH] >= file.rows[k][HIGH]}

\* C12: for nDays = 20 (mDays = 10) and nDays = 55 (mDays = 20),
\* filter_tickers_by_reset_signal includes a symbol iff its series has a last
\* breakdown row i and a last breakout row j, and i > j.
C12_ResetInclusion ==
    (Reset /\ call.n_days \in {D20, D55}) =>
        \A ticker \in Range(call.tickers) :
            LET file == folder[ticker]
                n == call.n_days
                m == IF n = D20 THEN D10 ELSE D20
                I == BreakdownRows(file, m)
                J == BreakoutRows(file, n)
            IN  file.exists =>
                    (ticker \in Range(call.result)
                         <=> (I # {} /\ J # {} /\ MaxOf(I) > MaxOf(J)))

\* The scenario of the 25-bar series, in the scale of the model: the last 20-day
\* breakout row is not the last row, the last row undercuts the 10-day low of
\* the rows before it, and the symbol is included for nDays = 20; in the same
\* folder the other symbol has both events at its last row and is left out.
C12_Witness ==
    /\ Reset
    /\ call.n_days = D20
    /\ Len(call.tickers) = 2
    /\ call.result = <<"AAPL">>
    /\ folder["MSFT"].exists
    /\ LET file == folder["AAPL"]
       IN  /\ MaxOf(BreakoutRows(file, D20)) = len(file) - D10 - 1
           /\ MaxOf(BreakdownRows(file, D10)) = len(file)
    /\ LET file == folder["MSFT"]
       IN  /\ len(file) \in BreakoutRows(file, D20)
           /\ len(file) \in BreakdownRows(file, D10)

\* C13: filter_tickers_by_reset_signal pairs nDays = 20 with mDays = 10 and
\* nDays = 55 with mDays = 20; for every other nDays it returns the empty list,
\* reads no series and raises nothing.
C13_ResetPairing ==
    Reset =>
        /\ call.n_days = D20 => call.m_days = D10
        /\ call.n_days = D55 => call.m_days = D20
        /\ call.n_days \notin {D20, D55} =>
               (call.result = <<>> /\ call.reads = {} /\ printed = <<>>)

\* A reset scan with an unpaired nDays over a folder in which a paired nDays
\* reports the symbol: the scan returns the empty list and reads nothing.
C13_Witness ==
    /\ Reset
    /\ call.n_days \notin {D20, D55}
    /\ call.result = <<>>
    /\ call.reads = {}
    /\ \E n_days \in {D20, D55} : filter_tickers_by_reset_signal(call.tickers, n_days) # <<>>

\* A list of symbols in lexicographic order.
InOrder(tickers) ==
    \A i \in 1..(Len(tickers) - 1) : rank(tickers[i]) <= rank(tickers[i + 1])

\* C14 (as claimed): the list filter_tickers_by_reset_signal returns is sorted
\* by symbol, whatever the order of the input list.
C14_ResetSorted ==
    Reset => InOrder(call.result)

\* The orderings of a duplicate-free list.
Orderings(tickers) ==
    {p \in [1..Len(tickers) -> Range(tickers)] : Range(p) = Range(tickers)}

\* C15: check_price_breakout_for_tickers, in both modes, and
\* check_bullish_arrangement_for_tickers return a sorted list of symbols of the
\* input list, the same list for every ordering of the input.
C15_ScanSorted ==
    /\ Scanned =>
           /\ InOrder(call.result)
           /\ Range(call.result) \subseteq Range(call.tickers)
           /\ \A p \in Orderings(call.tickers) :
                  check_price_breakout_for_tickers(p, call.n_days, call.use_live_price,
                                                   call.infos) = call.result
    /\ call.op = "bullish" =>
           /\ InOrder(call.result)
           /\ Range(call.result) \subseteq Range(call.tickers)
           /\ \A p \in Orderings(call.tickers) :
                  check_bullish_arrangement_for_tickers(p) = call.result

\* A scan called with the symbols in descending order that includes both of
\* them and returns them in ascending order.
C15_Witness ==
    /\ call.op \in {"scan", "bullish"}
    /\ call.tickers = <<"MSFT", "AAPL">>
    /\ call.result = <<"AAPL", "MSFT">>

(***************************************************************************)
(* Claims about the operations over lists of symbols (checked under        *)
(* SpecBatch).                                                             *)
(***************************************************************************)
ErrorMessages ==
    {"Error downloading", "Error enriching", "Error checking historical breakout",
     "Error checking breakout", "Error checking bullish arrangement", "Error processing"}

Without(tickers, failing) == SelectSeq(tickers, LAMBDA ticker : ticker # failing)

\* What is printed about one symbol.
PrintedFor(messages, symbol) ==
    SelectSeq(messages, LAMBDA m : m[1] # "Breakout tickers" /\ m[2] = symbol)

\* Processing the symbol raises in the operation that is starting.
Raises(symbol) ==
    LET file == folder[symbol]
    IN  CASE call'.op = "download_all" -> call'.nets[symbol] = "error"
          [] call'.op = "enrich_all" ->
                 \/ ~file.exists /\ call'.nets[symbol] = "error"
                 \/ file.exists /\ len(file) = 0
          [] call'.op = "scan" -> ~file.exists
          [] call'.op = "reset" -> call'.n_days \in {D20, D55} /\ ~file.exists
          [] call'.op = "bullish" -> ~file.exists \/ len(file) = 0

\* The operation that is starting, run from the same state on another list.
RunOn(tickers) ==
    CASE call'.op = "download_all" ->
             download_market_data_for_tickers(folder, tickers, call'.duration, call'.nets)
      [] call'.op = "enrich_all" ->
             enrich_with_indicators_for_tickers(folder, tickers, call'.duration, call'.nets)
      [] call'.op = "scan" ->
             [files |-> folder,
              result |-> check_price_breakout_for_tickers(tickers, call'.n_days,
                                                          call'.use_live_price, call'.infos)]
      [] call'.op = "reset" ->
             [files |-> folder,
              result |-> filter_tickers_by_reset_signal(tickers, call'.n_days)]
      [] call'.op = "bullish" ->
             [files |-> folder, result |-> check_bullish_arrangement_for_tickers(tickers)]

C17_AtomicPersistence ==
    call.op = "save_csv" =>
        \A i \in 1..Len(seen) : seen[i] \in {call.before, call.df}

(***************************************************************************)
(* Claims about the incremental updater (checked under Spec).              *)
(***************************************************************************)
\* A call of enrich_with_indicators_for_ticker on a stored series with rows.
EnrichStored == call.op = "none" /\ call'.op = "enrich" /\ csv.exists /\ len(csv) > 0

\* The last stored date is today, yesterday, or the Friday before a Sunday.
Current ==
    LET last == csv.rows[Len(csv.rows)][DATE]
    IN  \/ last = today
        \/ last = today - 1
        \/ today % 7 = 6 /\ last = today - 2

\* C18: when the last stored date is today, yesterday, or today is a Sunday
\* and the last stored date is the Friday two days earlier,
\* enrich_with_indicators_for_ticker fetches nothing and leaves the stored
\* series as it is; for every other last stored date it fetches.
C18_FreshnessShortCircuit ==
    [][EnrichStored =>
          IF Current THEN ~call'.fetched /\ csv' = csv ELSE call'.fetched]_vars

\* An enrich call on a Sunday that found Friday's bar last and did not fetch.
C18_Witness ==
    /\ call.op = "enrich"
    /\ ~call.fetched
    /\ ~call.raised
    /\ call.stored > 0
    /\ today % 7 = 6
    /\ csv.rows[Len(csv.rows)][DATE] = today - 2

\* The bars the provider returns to the call, without today's.
Fetched(duration) ==
    SelectSeq(provider, LAMBDA b : b[DATE] > today - duration /\ b[DATE] # today)

\* The positions of the last stored date among the fetched bars.
AnchorAt(stored, bars) ==
    {a \in 1..Len(bars) : bars[a][DATE] = stored[Len(stored)][DATE]}

\* C19: when the last stored date is found at position a of the fetched
\* bars, the updater appends exactly the fetched bars after position a, in
\* their order, and every stored row keeps all its values.
C19_AppendAfterAnchor ==
    [][(EnrichStored /\ call'.net = "ok" /\ ~Current) =>
          LET bars == Fetched(call'.duration)
          IN  \A a \in AnchorAt(csv.rows, bars) :
                  /\ Len(csv'.rows) = Len(csv.rows) + Len(bars) - a
                  /\ SubSeq(csv'.rows, 1, Len(csv.rows)) = csv.rows
                  /\ \A j \in 1..(Len(bars) - a) :
                         \A k \in 1..Len(BASIC_COLUMNS) :
                             csv'.rows[Len(csv.rows) + j][BASIC_COLUMNS[k]]
                                 = bars[a + j][BASIC_COLUMNS[k]]]_vars

\* An enrich call that found its anchor among the fetched bars and appended
\* two bars or more after the stored rows.
C19_Witness ==
    /\ call.op = "enrich"
    /\ call.net = "ok"
    /\ call.fetched
    /\ call.stored > 0
    /\ len(csv) >= call.stored + 2
    /\ AnchorAt(SubSeq(csv.rows, 1, call.stored), Fetched(call.duration)) # {}

\* The dates of the stored rows, in the order of the rows.
Dates == [i \in 1..Len(csv.rows) |-> csv.rows[i][DATE]]

\* C20: in every stored series that calls of download_market_data_for_ticker
\* and enrich_with_indicators_for_ticker produce, the Date column is strictly
\* increasing, so that no date occurs twice.
C20_DatesStrictlyIncreasing ==
    csv.exists => \A i \in 1..(Len(Dates) - 1) : Dates[i] < Dates[i + 1]

\* A series extended by an enrich call whose fetched window no longer held
\* the last stored date: a bar of the provider lies between two stored rows.
C20_Witness ==
    /\ call.op = "enrich"
    /\ call.fetched
    /\ call.stored > 0
    /\ len(csv) > call.stored
    /\ \E b \in Range(provider) :
           /\ Dates[call.stored] < b[DATE]
           /\ b[DATE] < Dates[call.stored + 1]

\* C21: the only bars of the provider's history that a batch download leaves
\* out of the stored series are today's: when the last fetched bar is dated
\* today the download drops exactly that bar, and otherwise it drops none.
C21_DownloadDropsOnlyToday ==
    (call.op = "download" /\ call.net = "ok") =>
        Dates = [i \in 1..Len(Fetched(call.duration)) |->
                    Fetched(call.duration)[i][DATE]]

\* C22: enriching an empty bar series (the provider holds no bar before
\* today's) fails with an error and returns no result: the call raises, and
\* no derived column is stored for the series.
C22_EmptySeriesFails ==
    (call.op = "download" /\ call.net = "ok" /\ Fetched(call.duration) = <<>>) =>
        /\ call.raised
        /\ Range(csv.columns) \cap Range(DERIVED_COLUMNS) = {}

\* C23: the reset scan skips every symbol whose stored series has fewer than
\* max(nDays, mDays) + 1 bars: the symbol is not in the result, no error is
\* printed for it and its series is not searched; a series of exactly
\* max(nDays, mDays) + 1 bars is searched.
C23_ResetSkipsShortSeries ==
    (Reset /\ call.n_days \in {D20, D55}) =>
        \A ticker \in Range(call.tickers) :
            LET file == folder[ticker]
                n == call.n_days
                m == IF n = D20 THEN D10 ELSE D20
                needed == (IF n > m THEN n ELSE m) + 1
            IN  file.exists =>
                    /\ Len(file.rows) < needed =>
                           /\ ticker \notin Range(call.result)
                           /\ ticker \notin call.searches
                           /\ \A i \in 1..Len(printed) : printed[i][2] # ticker
                    /\ Len(file.rows) = needed => ticker \in call.searches

\* A reset scan of two symbols for nDays = 55: one series has one bar fewer
\* than max(nDays, mDays) + 1 and is skipped without an error, the other is
\* long enough and is searched.
C23_Witness ==
    /\ Reset
    /\ call.n_days = D55
    /\ Len(call.tickers) = 2
    /\ folder["AAPL"].exists
    /\ len(folder["AAPL"]) = D55
    /\ folder["MSFT"].exists
    /\ call.searches = {"MSFT"}
    /\ printed = <<>>

(***************************************************************************)
(* Claims about the scheduled scripts (checked under SpecJob).             *)
(***************************************************************************)
\* T1, T2, ..., Tk written out with ", " between them.
RECURSIVE Listed(_, _)
Listed(list, k) ==
    IF k = 0 THEN ""
    ELSE IF k = 1 THEN list[1]
    ELSE Listed(list, k - 1) \o ", " \o list[k]

\* '[<stamp>] <label> breakout tickers: T1, T2 (count: N)'
ResultLine(stamp, label, list) ==
    "[" \o stamp \o "] " \o label \o " breakout tickers: " \o Listed(list, Len(list))
        \o " (count: " \o ToString(Len(list)) \o ")"

\* The breakout list log of the script that ran, and the stamp of its lines.
ListLog ==
    IF call.op = "market_close"
    THEN logs[BREAKOUT_LOG_MARKET_CLOSE] ELSE logs[BREAKOUT_LOG_MARKET_OPEN]

Stamp ==
    IF call.op = "market_close"
    THEN ToString(today) ELSE ToString(today) \o " " \o call.time

\* C24: every breakout result line that the market-close and the market-open
\* script append to their breakout list log has the form
\* '[<date-or-timestamp>] <label> breakout tickers: T1, T2 (count: N)', with
\* lower-case 'breakout' and 'count', T1, T2, ... the returned list in its
\* order and N its length.
C24_ResultLineForm ==
    call.op \in {"market_close", "market_open"} =>
        \A i \in 1..Len(call.scanned) :
            ListLog[Len(ListLog) - Len(call.scanned) + i]
                = ResultLine(Stamp, ToString(call.scanned[i]) \o "-days high",
                             call.results[i])

\* A run of the market-open script that found the market closed.
ClosedRun == logs' # logs /\ call'.op = "market_open" /\ ~call'.market_is_open

\* C26: in a run of the market-open script in which check_if_market_is_open
\* returns false, the ticker universe is not loaded, no scan is made and no
\* breakout line is written; exactly one 'Market is closed, no breakout check
\* performed' line is appended to the open log, and the main log receives
\* START, the market-closed INFO entry and END, in that order.
C26_MarketClosedRun ==
    [][ClosedRun =>
          LET stamp == ToString(today) \o " " \o call'.time
          IN  /\ ~call'.loaded
              /\ call'.scanned = <<>>
              /\ logs'[BREAKOUT_LOG_MARKET_OPEN] =
                     Append(logs[BREAKOUT_LOG_MARKET_OPEN],
                            "[" \o stamp \o "] Market is closed, no breakout check performed")
              /\ logs'[MAIN_LOG_BREAKOUT_MARKET_OPEN] =
                     logs[MAIN_LOG_BREAKOUT_MARKET_OPEN] \o
                         << "[START ] " \o stamp \o " Check breakout at market open job started",
                            "[INFO  ] " \o stamp \o " Market is closed, skip checking breakout",
                            "[END   ] " \o stamp \o " Check breakout at market open job ended" >>
              /\ logs'[BREAKOUT_LOG_MARKET_CLOSE] = logs[BREAKOUT_LOG_MARKET_CLOSE]
              /\ logs'[MAIN_LOG_BREAKOUT_MARKET_CLOSE] = logs[MAIN_LOG_BREAKOUT_MARKET_CLOSE]]_vars

\* The market-open script has run with the market closed, after a run of the
\* market-close script that scanned the stored series.
C26_Witness ==
    /\ call.op = "market_open"
    /\ ~call.market_is_open
    /\ Len(logs[MAIN_LOG_BREAKOUT_MARKET_OPEN]) = 3
    /\ Len(logs[BREAKOUT_LOG_MARKET_OPEN]) = 1
    /\ Len(logs[BREAKOUT_LOG_MARKET_CLOSE]) = Len(N_DAYS_HIGH_LIST)

\* C25: identify_multiple_signal_opportunities returns exactly the tickers
\* with all three signals: those in the 20-day price-breakout list, in the
\* moving-average crossover list and in the bullish-arrangement list.
C25_AllThreeSignals ==
    call.op = "signals" =>
        call.result = {ticker \in Range(call.tickers) :
                          \A k \in 1..3 : ticker \in Range(call.lists[k])}

(***************************************************************************)
(* Claims relating the scans (checked under SpecScan).                     *)
(***************************************************************************)
\* C27: for nDays in {20, 55} and one unchanged stored series, a symbol that
\* the historical price-breakout scan reports for nDays is not reported by
\* filter_tickers_by_reset_signal for the same nDays.
C27_BreakoutExcludesReset ==
    /\ (call.op = "scan" /\ ~call.use_live_price) =>
           \A ticker \in Range(call.result) :
               ticker \notin Range(filter_tickers_by_reset_signal(call.tickers, call.n_days))
    /\ (call.op = "reset" /\ call.n_days \in {D20, D55}) =>
           \A ticker \in Range(call.result) :
               ticker \notin Range(check_price_breakout_for_tickers(
                                       call.tickers, call.n_days, FALSE,
                                       [AAPL |-> {}, MSFT |-> {}]))

\* The historical scan for nDays = 20 reports a symbol whose series has an
\* earlier 20-day breakout row followed by a 10-day breakdown row: without the
\* breakout at the last row the reset scan would report it.
C27_Witness ==
    /\ call.op = "scan"
    /\ ~call.use_live_price
    /\ call.n_days = D20
    /\ "AAPL" \in Range(call.result)
    /\ LET file == folder["AAPL"]
           I == BreakdownRows(file, D10)
           J == BreakoutRows(file, D20) \ {len(file)}
       IN  I # {} /\ J # {} /\ MaxOf(I) > MaxOf(J)

(***************************************************************************)
(* Further claims about the calculator (checked under SpecCalc).           *)
(***************************************************************************)
\* C28: in every batch-enriched series the Bullish flag is false at every row
\* with index below 100, where MA-100 and MA-200 are means of the same bars
\* and so are equal.
C28_NoBullishBelow100 ==
    Batch =>
        \A i \in 1..Len(csv.rows) :
            i - 1 < D100 =>
                /\ csv.rows[i]["MA-100"] = csv.rows[i]["MA-200"]
                /\ csv.rows[i][BULLISH_ARRANGEMENT] = FALSE

\* A batch-enriched series longer than 100 rows whose closes rise from row 99
\* to row 100: the flag is true at row 100 and false at every row before it.
C28_Witness ==
    /\ Batch
    /\ Len(csv.rows) > D100
    /\ csv.rows[D100][CLOSE] < csv.rows[D100 + 1][CLOSE]
    /\ csv.rows[D100 + 1][BULLISH_ARRANGEMENT] = TRUE
    /\ \A i \in 1..D100 : csv.rows[i][BULLISH_ARRANGEMENT] = FALSE

\* The True Range values stored in rows 1..i.
TrueRanges(i) == {csv.rows[k][TRUE_RANGE] : k \in 1..i}

\* C29: for bars with High >= Low, every stored ATR value, from the batch
\* column or from the incremental step seeded with the previous stored row,
\* is non-negative and lies between the smallest and the largest True Range
\* of the rows up to its own.
C29_AtrWithinTrueRanges ==
    (Batch \/ Appended) =>
        \A i \in 1..Len(csv.rows) :
            \A column \in {ATR_20, ATR_55} :
                /\ csv.rows[i][column] >= 0
                /\ \A tr \in TrueRanges(i) :
                       (\A other \in TrueRanges(i) : tr <= other)
                           => tr <= csv.rows[i][column]
                /\ \A tr \in TrueRanges(i) :
                       (\A other \in TrueRanges(i) : tr >= other)
                           => csv.rows[i][column] <= tr

\* An appended row beyond the 20-row window whose ATR-20 came from the
\* recursive step and lies strictly between the smallest and the largest True
\* Range of the series.
C29_Witness ==
    /\ Appended
    /\ call.k > D20
    /\ LET n == Len(csv.rows)
       IN  /\ n > call.k
           /\ \E low \in TrueRanges(n) : low < csv.rows[n][ATR_20]
           /\ \E high \in TrueRanges(n) : csv.rows[n][ATR_20] < high

\* The columns that C30 orders, smallest first.
NestedHighs == <<HIGH>> \o N_DAYS_HIGH_COLUMNS
NestedLows == <<"20-Days Low", "10-Days Low", LOW>>

\* C30: in every row of a batch-enriched series the rolling extrema are
\* nested: High <= 10-Days High <= 20-Days High <= 30-Days High
\* <= 55-Days High <= 100-Days High <= 200-Days High, and
\* 20-Days Low <= 10-Days Low <= Low.
C30_NestedExtrema ==
    Batch =>
        \A i \in 1..Len(csv.rows) :
            /\ \A k \in 1..(Len(NestedHighs) - 1) :
                   csv.rows[i][NestedHighs[k]] <= csv.rows[i][NestedHighs[k + 1]]
            /\ \A k \in 1..(Len(NestedLows) - 1) :
                   csv.rows[i][NestedLows[k]] <= csv.rows[i][NestedLows[k + 1]]

\* A batch-enriched series longer than the longest window in which the
\* inequalities are strict somewhere: a row below its 10-day high, a row whose
\* 10-day high is below its 20-day high, a row above its 10-day low and a row
\* whose 20-day low is below its 10-day low.
C30_Witness ==
    /\ Batch
    /\ Len(csv.rows) > D200
    /\ \E i \in 1..Len(csv.rows) : csv.rows[i][HIGH] < csv.rows[i]["10-Days High"]
    /\ \E i \in 1..Len(csv.rows) :
           csv.rows[i]["10-Days High"] < csv.rows[i]["20-Days High"]
    /\ \E i \in 1..Len(csv.rows) : csv.rows[i]["10-Days Low"] < csv.rows[i][LOW]
    /\ \E i \in 1..Len(csv.rows) :
           csv.rows[i]["20-Days Low"] < csv.rows[i]["10-Days Low"]

====
